---- MODULE Spec2Model ----
(***************************************************************************)
(* bay: the build command (bay/plugins/build.py), the volume-provisioning  *)
(* POST_BUILD hook, and the plugin / hook registry it is loaded through.   *)
(***************************************************************************)
EXTENDS Integers, Sequences, FiniteSets, TLC

\* ------------------------------------------------------------------ bounds
NumContainers == 3
MaxRequest == 2
MaxBuilds == 3
NumExtraPlugins == 1
MaxHooks == 3
MaxHours == 25
MaxNameLen == 2
MaxId == 11

\* ------------------------------------------------------------------ values
Containers == 1..NumContainers
\* the absent container: build_parent(x) of a root, dict.get(..., None)
NoContainer == 0
\* ContainerType.Profile, the sentinel a request may hold beside containers
Profile == NumContainers + 1
Volumes == {"vol", "data"}
NoVolume == "none"

VARIABLES
    app,                 \* the catalog: app.containers and its accessors
    containers,          \* the command's argument tuple
    recursive,           \* --recursive / --one
    pc,                  \* position in build()
    containers_to_pull,
    containers_to_build,
    pulled_containers,
    failed_pulls,
    ancestors_to_build,
    ancestry,            \* what is left of reversed(ancestry) in the walk
    idx,                 \* index of the running for loop
    log,                 \* pulls and builds started, in order, with outcome
    hooks_run,           \* run_hooks calls made by build(), in order
    exit_code,
    \* the host and post_build()
    host,                \* the runtime: the volume's label and content, containers
    pb,                  \* the running post_build call and its position
    last,                \* the post_build call before the running one
    before,              \* the host when the running post_build call began
    ops,                 \* client calls of the running post_build call
    nbuilds,             \* builds done on the host
    \* load_plugins()
    plugin_classes,      \* the discovered plugin classes, in load order
    plugins,             \* the instantiated plugins
    loaded,              \* plugins whose load() has run, in order
    load_pc,             \* position in load_plugins
    \* the hook registry
    hooks,               \* hook type -> callables, in registration order
    registered,          \* the add_hook calls plugins made, in order
    dispatch,            \* the running run_hooks call
    invoked,             \* callables the running run_hooks call has invoked
    \* the elapsed time of build()
    start_time,          \* seconds on the clock when build() began
    end_time,            \* seconds on the clock when the queue was through
    time_delta_str,      \* the text to print, a list of characters
    time_pc,             \* position in lines 289-295
    \* pre_start()
    ps,                  \* the running pre_start call and its position
    \* the plugin classes under PluginMetaclass
    classes,             \* the plugin classes of the process: name and id()
    compared             \* the last comparison made and its results

buildVars == <<containers, recursive, pc, containers_to_pull,
               containers_to_build, pulled_containers, failed_pulls,
               ancestors_to_build, ancestry, idx, log, hooks_run, exit_code>>
volumeVars == <<host, pb, last, before, ops, nbuilds>>
pluginVars == <<plugin_classes, plugins, loaded, load_pc>>
hookVars == <<hooks, registered, dispatch, invoked>>
timeVars == <<start_time, end_time, time_delta_str, time_pc>>
startVars == <<ps>>
orderVars == <<classes, compared>>
moreVars == <<timeVars, startVars, orderVars>>
vars == <<app, buildVars, volumeVars, pluginVars, hookVars, moreVars>>

\* ------------------------------------------------------------------ helpers
SeqToSet(s) == {s[i] : i \in DOMAIN s}
InSeq(x, s) == \E i \in DOMAIN s : s[i] = x
NoDup(s) == \A i, j \in DOMAIN s : s[i] = s[j] => i = j
Reverse(s) == [i \in 1..Len(s) |-> s[Len(s) + 1 - i]]
ButLast(s) == SubSeq(s, 1, Len(s) - 1)

RECURSIVE SetToSeq(_)
\* a set of containers as a list in catalog order
SetToSeq(S) ==
    IF S = {} THEN <<>>
    ELSE LET m == CHOOSE x \in S : \A y \in S : x <= y
         IN <<m>> \o SetToSeq(S \ {m})

RECURSIVE VolSeq(_)
VolSeq(S) ==
    IF S = {} THEN <<>>
    ELSE LET v == CHOOSE x \in S : TRUE IN <<v>> \o VolSeq(S \ {v})

RECURSIVE VisitAll(_, _, _)
VisitAll(nodes, edges, result) ==
    IF nodes = <<>> THEN result
    ELSE LET n == Head(nodes)
         IN IF InSeq(n, result)
            THEN VisitAll(Tail(nodes), edges, result)
            ELSE VisitAll(Tail(nodes), edges,
                          Append(VisitAll(edges[n], edges, result), n))

\* bay.utils.sorting.dependency_sort: every node and everything it depends
\* on, once each, dependencies first, ties in input order
dependency_sort(nodes, edges) == VisitAll(nodes, edges, <<>>)

\* lambda x: [app.containers.build_parent(x)]
build_parent_edges ==
    [c \in Containers |->
        IF app.build_parent[c] = NoContainer THEN <<>>
        ELSE <<app.build_parent[c]>>]

\* app.containers.dependencies
dependencies_edges == [c \in Containers |-> SetToSeq(app.dependencies[c])]

\* _get_providers(app): the last container of the catalog declaring a volume wins
_get_providers ==
    [v \in Volumes |->
        LET P == {c \in Containers : app.provides_volume[c] = v}
        IN IF P = {} THEN NoContainer
           ELSE CHOOSE c \in P : \A d \in P : d <= c]

\* faulty variant: the providers of mounted volumes are left out
ProvidersOf_none(vols) == <<>>

RECURSIVE ProvidersOf(_)
\* for volume in con.named_volumes.values(): if volume in providers: append
ProvidersOf(vols) ==
    IF vols = <<>> THEN <<>>
    ELSE (IF _get_providers[Head(vols)] # NoContainer
          THEN <<_get_providers[Head(vols)]>> ELSE <<>>)
         \o ProvidersOf(Tail(vols))

RECURSIVE ProfileExpansion(_)
\* for con in app.containers: if in_profile or system: append con, providers
ProfileExpansion(c) ==
    IF c > NumContainers THEN <<>>
    ELSE (IF c \in app.in_profile \/ c \in app.system
          THEN <<c>> \o ProvidersOf(VolSeq(app.named_volumes[c]))
          ELSE <<>>)
         \o ProfileExpansion(c + 1)

RECURSIVE ExpandToPull(_)
ExpandToPull(req) ==
    IF req = <<>> THEN <<>>
    ELSE (IF Head(req) = Profile THEN ProfileExpansion(1) ELSE <<>>)
         \o ExpandToPull(Tail(req))

RECURSIVE ExpandToBuild(_)
ExpandToBuild(req) ==
    IF req = <<>> THEN <<>>
    ELSE (IF Head(req) = Profile THEN <<>>
          ELSE <<Head(req)>> \o ProvidersOf(VolSeq(app.named_volumes[Head(req)])))
         \o ExpandToBuild(Tail(req))

\* the ancestry list the walk of one queued container goes through
Ancestry(container) ==
    ButLast(dependency_sort(containers_to_build, build_parent_edges))

\* faulty variant: the list is used as queued, without the sort
FinalOrder_unsorted(atb) == atb

\* faulty variant: the sort's result is used without the filter
FinalOrder_unfiltered(atb) == dependency_sort(atb, build_parent_edges)

\* lines 243-251: sort, then keep what was in the list before
FinalOrder(atb) ==
    SelectSeq(dependency_sort(atb, build_parent_edges),
              LAMBDA c : InSeq(c, atb))

\* ------------------------------------------------------------------ catalogs
RECURSIVE Climb(_, _, _)
Climb(f, c, k) == IF c = NoContainer \/ k = 0 THEN c ELSE Climb(f, f[c], k - 1)
Forest(f) == \A c \in Containers : Climb(f, c, NumContainers) = NoContainer

RECURSIVE Reach(_, _, _)
Reach(d, S, k) ==
    IF k = 0 THEN S ELSE Reach(d, S \cup UNION {d[c] : c \in S}, k - 1)

NoParents == [c \in Containers |-> NoContainer]
NoDependencies == [c \in Containers |-> {}]
NoMounts == [c \in Containers |-> {}]
NoProvides == [c \in Containers |-> NoVolume]

\* build-parent forests; OrderedForests lists every parent before its children
Forests == {f \in [Containers -> Containers \cup {NoContainer}] : Forest(f)}
OrderedForests == {f \in Forests : \A c \in Containers : f[c] < c}

\* runtime dependencies: at most one edge in the catalog
DependencyMaps ==
    {NoDependencies} \cup
    {[c \in Containers |-> IF c = e[1] THEN {e[2]} ELSE {}] :
        e \in {x \in Containers \X Containers : x[1] # x[2]}}

\* named volumes: no provider, or one or two containers declaring the volume
\* and the other containers that mount it
VolumeMaps ==
    {[nv |-> NoMounts, pv |-> NoProvides]} \cup
    UNION {{[nv |-> [c \in Containers |-> IF c \in M THEN {"vol"} ELSE {}],
             pv |-> [c \in Containers |-> IF c \in P THEN "vol" ELSE NoVolume]] :
                M \in (SUBSET (Containers \ P)) \ {{}}} :
           P \in {Q \in SUBSET Containers : Cardinality(Q) \in {1, 2}}}

\* in_profile and system are only read as (in_profile or system): container 1
\* is marked by system, the others by in_profile
ProfileMarks ==
    {[ip |-> S \ {1}, sy |-> S \cap {1}] : S \in SUBSET Containers}

Explicit(n) == UNION {[1..k -> Containers] : k \in 0..n}

Catalog(bp, d, v, m) ==
    [build_parent |-> bp, dependencies |-> d, named_volumes |-> v.nv,
     provides_volume |-> v.pv, in_profile |-> m.ip, system |-> m.sy]

NoMarks == [ip |-> {}, sy |-> {}]
NoVolumes == [nv |-> NoMounts, pv |-> NoProvides]

\* the requests and catalogs build() is run on
BuildInputs ==
    \* explicit targets over a forest
    \/ \E req \in Explicit(MaxRequest), bp \in Forests :
           /\ containers = req
           /\ app = Catalog(bp, NoDependencies, NoVolumes, NoMarks)
    \* explicit targets over a forest, with volume providers
    \/ \E req \in Explicit(MaxRequest - 1), bp \in OrderedForests, v \in VolumeMaps :
           /\ containers = req
           /\ app = Catalog(bp, NoDependencies, v, NoMarks)
    \* the profile sentinel, alone or before one explicit target, over a forest
    \/ \E req \in Explicit(1), bp \in Forests, m \in ProfileMarks :
           /\ containers = <<Profile>> \o req
           /\ app = Catalog(bp, NoDependencies, NoVolumes, m)
    \* the profile sentinel over runtime dependencies and volume providers
    \/ \E d \in DependencyMaps, v \in VolumeMaps, m \in ProfileMarks :
           /\ containers = <<Profile>>
           /\ app = Catalog(NoParents, d, v, m)

\* ------------------------------------------------------------------ parts at rest
Absent == "absent"
ImageIds == {"sha:1", "sha:2"}
HookTypes == {"PRE_START", "POST_BUILD", "PRE_GROUP_BUILD", "POST_GROUP_BUILD"}

NoCall == [pc |-> "idle", container |-> NoContainer, image |-> Absent,
           provides_volume |-> NoVolume, instances_to_remove |-> {}]

NoLast == [pc |-> "idle", container |-> NoContainer, image |-> Absent,
           provisioned |-> FALSE]

NoHost ==
    /\ host = [label |-> Absent, content |-> Absent, running |-> {},
               stopped |-> {}, run |-> Absent]
    /\ pb = NoCall
    /\ last = NoLast
    /\ before = host
    /\ ops = <<>>
    /\ nbuilds = 0

NoPlugins ==
    /\ plugin_classes = <<>>
    /\ plugins = <<>>
    /\ loaded = <<>>
    /\ load_pc = "idle"

NoHooks ==
    /\ hooks = [t \in HookTypes |-> <<>>]
    /\ registered = <<>>
    /\ dispatch = [pc |-> "idle", hook_type |-> "PRE_START", next |-> 1]
    /\ invoked = <<>>

NoElapsed ==
    /\ start_time = 0
    /\ end_time = 0
    /\ time_delta_str = <<>>
    /\ time_pc = "idle"

NoStart == ps = [pc |-> "idle", instance |-> NoContainer, todo |-> <<>>]

NoOrder ==
    /\ classes = <<>>
    /\ compared = <<>>

NoMore == NoElapsed /\ NoStart /\ NoOrder

NoBuild ==
    /\ containers = <<>>
    /\ recursive = TRUE
    /\ pc = "idle"
    /\ containers_to_pull = <<>>
    /\ containers_to_build = <<>>
    /\ pulled_containers = {}
    /\ failed_pulls = {}
    /\ ancestors_to_build = <<>>
    /\ ancestry = <<>>
    /\ idx = 0
    /\ log = <<>>
    /\ hooks_run = <<>>
    /\ exit_code = -1

\* ------------------------------------------------------------------ build()
InitBuild ==
    /\ BuildInputs
    /\ recursive \in BOOLEAN
    /\ pc = "expand"
    /\ containers_to_pull = <<>>
    /\ containers_to_build = <<>>
    /\ pulled_containers = {}
    /\ failed_pulls = {}
    /\ ancestors_to_build = <<>>
    /\ ancestry = <<>>
    /\ idx = 0
    /\ log = <<>>
    /\ hooks_run = <<>>
    /\ exit_code = -1
    /\ NoHost
    /\ NoPlugins
    /\ NoHooks
    /\ NoMore

\* where the loop over containers_to_build goes after the container at idx
AfterContainer(pos) ==
    IF pos < Len(containers_to_build)
    THEN /\ pc' = "resolve"
         /\ idx' = pos + 1
    ELSE /\ pc' = "sort"
         /\ idx' = 1

\* lines 164-186: expand the request, sort the pull candidates
Expand ==
    /\ pc = "expand"
    /\ containers_to_pull' =
           dependency_sort(ExpandToPull(containers), dependencies_edges)
    /\ containers_to_build' = ExpandToBuild(containers)
    /\ pc' = IF containers_to_pull' # <<>> THEN "pull"
             ELSE IF containers_to_build' # <<>> THEN "resolve" ELSE "sort"
    /\ idx' = 1
    /\ UNCHANGED <<app, containers, recursive, pulled_containers, failed_pulls,
                   ancestors_to_build, ancestry, log, hooks_run, exit_code>>
    /\ UNCHANGED <<volumeVars, pluginVars, hookVars, moreVars>>

\* faulty variant: every pull candidate is queued, whatever the pull's outcome
PullQueue_always(ok, container) == Append(containers_to_build, container)

\* lines 200-204: a failed pull queues the container for a build
PullQueue(ok, container) ==
    IF ok THEN containers_to_build ELSE Append(containers_to_build, container)

\* lines 191-204: one iteration of the pull loop
Pull(ok) ==
    /\ pc = "pull"
    /\ LET container == containers_to_pull[idx] IN
       /\ log' = Append(log, [op |-> "pull", c |-> container, ok |-> ok])
       /\ containers_to_build' = PullQueue(ok, container)
       /\ IF ok
          THEN /\ pulled_containers' = pulled_containers \cup {container}
               /\ UNCHANGED failed_pulls
          ELSE /\ failed_pulls' = failed_pulls \cup {container}
               /\ UNCHANGED pulled_containers
    /\ IF idx < Len(containers_to_pull)
       THEN /\ pc' = "pull"
            /\ idx' = idx + 1
       ELSE /\ pc' = IF containers_to_build' # <<>> THEN "resolve" ELSE "sort"
            /\ idx' = 1
    /\ UNCHANGED <<app, containers, recursive, containers_to_pull,
                   ancestors_to_build, ancestry, hooks_run, exit_code>>
    /\ UNCHANGED <<volumeVars, pluginVars, hookVars, moreVars>>

\* faulty variant: the ancestry is walked whatever the recursive flag says
Resolve_always ==
    /\ pc = "resolve"
    /\ LET container == containers_to_build[idx]
           walk == Reverse(Ancestry(container))
       IN /\ ancestors_to_build' = Append(ancestors_to_build, container)
          /\ ancestry' = walk
          /\ IF walk # <<>>
             THEN /\ pc' = "walk"
                  /\ idx' = idx
             ELSE AfterContainer(idx)
    /\ UNCHANGED <<app, containers, recursive, containers_to_pull,
                   containers_to_build, pulled_containers, failed_pulls, log,
                   hooks_run, exit_code>>
    /\ UNCHANGED <<volumeVars, pluginVars, hookVars, moreVars>>

\* lines 209-218: the next queued container and the ancestry to walk
Resolve ==
    /\ pc = "resolve"
    /\ LET container == containers_to_build[idx]
           walk == IF recursive THEN Reverse(Ancestry(container)) ELSE <<>>
       IN /\ ancestors_to_build' = Append(ancestors_to_build, container)
          /\ ancestry' = walk
          /\ IF walk # <<>>
             THEN /\ pc' = "walk"
                  /\ idx' = idx
             ELSE AfterContainer(idx)
    /\ UNCHANGED <<app, containers, recursive, containers_to_pull,
                   containers_to_build, pulled_containers, failed_pulls, log,
                   hooks_run, exit_code>>
    /\ UNCHANGED <<volumeVars, pluginVars, hookVars, moreVars>>

\* faulty variant: no break after a successful pull
OlderAncestors_nobreak(ok) == Tail(ancestry)

\* lines 233-240: after a failure the walk goes on to the older ancestors,
\* after a success it breaks
OlderAncestors(ok) == IF ok THEN <<>> ELSE Tail(ancestry)

\* the walk goes on to rest, or the loop to the next queued container
WalkOn(rest) ==
    /\ ancestry' = rest
    /\ IF rest # <<>>
       THEN /\ pc' = "walk"
            /\ idx' = idx
       ELSE AfterContainer(idx)

\* lines 222-223, 233-235: the ancestor failed before, no new pull
WalkFailedBefore ==
    /\ pc = "walk"
    /\ Head(ancestry) \in failed_pulls
    /\ failed_pulls' = failed_pulls \cup {Head(ancestry)}
    /\ ancestors_to_build' = <<Head(ancestry)>> \o ancestors_to_build
    /\ WalkOn(OlderAncestors(FALSE))
    /\ UNCHANGED <<app, containers, recursive, containers_to_pull,
                   containers_to_build, pulled_containers, log, hooks_run,
                   exit_code>>
    /\ UNCHANGED <<volumeVars, pluginVars, hookVars, moreVars>>

\* lines 225, 236-240: the ancestor was pulled before, no new pull, break
WalkPulledBefore ==
    /\ pc = "walk"
    /\ Head(ancestry) \notin failed_pulls
    /\ Head(ancestry) \in pulled_containers
    /\ pulled_containers' = pulled_containers \cup {Head(ancestry)}
    /\ WalkOn(OlderAncestors(TRUE))
    /\ UNCHANGED <<app, containers, recursive, containers_to_pull,
                   containers_to_build, failed_pulls, ancestors_to_build, log,
                   hooks_run, exit_code>>
    /\ UNCHANGED <<volumeVars, pluginVars, hookVars, moreVars>>

\* faulty variant: an ancestor whose pull failed before is pulled again
WalkPull_retry(ok) ==
    /\ pc = "walk"
    /\ Head(ancestry) \notin pulled_containers
    /\ log' = Append(log, [op |-> "pull", c |-> Head(ancestry), ok |-> ok])
    /\ WalkOn(OlderAncestors(ok))
    /\ IF ok
       THEN /\ pulled_containers' = pulled_containers \cup {Head(ancestry)}
            /\ UNCHANGED <<failed_pulls, ancestors_to_build>>
       ELSE /\ failed_pulls' = failed_pulls \cup {Head(ancestry)}
            /\ ancestors_to_build' = <<Head(ancestry)>> \o ancestors_to_build
            /\ UNCHANGED pulled_containers
    /\ UNCHANGED <<app, containers, recursive, containers_to_pull,
                   containers_to_build, hooks_run, exit_code>>
    /\ UNCHANGED <<volumeVars, pluginVars, hookVars, moreVars>>

\* faulty variant: an ancestor pulled before is pulled again
WalkPull_again(ok) ==
    /\ pc = "walk"
    /\ Head(ancestry) \notin failed_pulls
    /\ log' = Append(log, [op |-> "pull", c |-> Head(ancestry), ok |-> ok])
    /\ WalkOn(OlderAncestors(ok))
    /\ IF ok
       THEN /\ pulled_containers' = pulled_containers \cup {Head(ancestry)}
            /\ UNCHANGED <<failed_pulls, ancestors_to_build>>
       ELSE /\ failed_pulls' = failed_pulls \cup {Head(ancestry)}
            /\ ancestors_to_build' = <<Head(ancestry)>> \o ancestors_to_build
            /\ UNCHANGED pulled_containers
    /\ UNCHANGED <<app, containers, recursive, containers_to_pull,
                   containers_to_build, hooks_run, exit_code>>
    /\ UNCHANGED <<volumeVars, pluginVars, hookVars, moreVars>>

\* lines 226-240: the ancestor is pulled now
WalkPull(ok) ==
    /\ pc = "walk"
    /\ Head(ancestry) \notin failed_pulls
    /\ Head(ancestry) \notin pulled_containers
    /\ log' = Append(log, [op |-> "pull", c |-> Head(ancestry), ok |-> ok])
    /\ WalkOn(OlderAncestors(ok))
    /\ IF ok
       THEN /\ pulled_containers' = pulled_containers \cup {Head(ancestry)}
            /\ UNCHANGED <<failed_pulls, ancestors_to_build>>
       ELSE /\ failed_pulls' = failed_pulls \cup {Head(ancestry)}
            /\ ancestors_to_build' = <<Head(ancestry)>> \o ancestors_to_build
            /\ UNCHANGED pulled_containers
    /\ UNCHANGED <<app, containers, recursive, containers_to_pull,
                   containers_to_build, hooks_run, exit_code>>
    /\ UNCHANGED <<volumeVars, pluginVars, hookVars, moreVars>>

\* lines 243-259: the final order, handed to PRE_GROUP_BUILD
Sort ==
    /\ pc = "sort"
    /\ ancestors_to_build' = FinalOrder(ancestors_to_build)
    /\ hooks_run' = Append(hooks_run, <<"PRE_GROUP_BUILD", ancestors_to_build'>>)
    /\ pc' = "build"
    /\ idx' = 1
    /\ UNCHANGED <<app, containers, recursive, containers_to_pull,
                   containers_to_build, pulled_containers, failed_pulls,
                   ancestry, log, exit_code>>
    /\ UNCHANGED <<volumeVars, pluginVars, hookVars, moreVars>>

\* faulty variant: a failed build is skipped and the loop goes on
Build_continue(ok) ==
    /\ pc = "build"
    /\ idx <= Len(ancestors_to_build)
    /\ log' = Append(log, [op |-> "build", c |-> ancestors_to_build[idx], ok |-> ok])
    /\ idx' = idx + 1
    /\ UNCHANGED <<app, containers, recursive, pc, containers_to_pull,
                   containers_to_build, pulled_containers, failed_pulls,
                   ancestors_to_build, ancestry, hooks_run, exit_code>>
    /\ UNCHANGED <<volumeVars, pluginVars, hookVars, moreVars>>

\* faulty variant: POST_GROUP_BUILD is fired on the way out of a failed build
Build_post(ok) ==
    /\ pc = "build"
    /\ idx <= Len(ancestors_to_build)
    /\ log' = Append(log, [op |-> "build", c |-> ancestors_to_build[idx], ok |-> ok])
    /\ IF ok
       THEN /\ idx' = idx + 1
            /\ UNCHANGED <<pc, exit_code, hooks_run>>
       ELSE /\ pc' = "exited"
            /\ exit_code' = 1
            /\ hooks_run' = Append(hooks_run, <<"POST_GROUP_BUILD", ancestors_to_build>>)
            /\ UNCHANGED idx
    /\ UNCHANGED <<app, containers, recursive, containers_to_pull,
                   containers_to_build, pulled_containers, failed_pulls,
                   ancestors_to_build, ancestry>>
    /\ UNCHANGED <<volumeVars, pluginVars, hookVars, moreVars>>

\* lines 261-283: one iteration of the build loop; a failure is sys.exit(1)
Build(ok) ==
    /\ pc = "build"
    /\ idx <= Len(ancestors_to_build)
    /\ log' = Append(log, [op |-> "build", c |-> ancestors_to_build[idx], ok |-> ok])
    /\ IF ok
       THEN /\ idx' = idx + 1
            /\ UNCHANGED <<pc, exit_code>>
       ELSE /\ pc' = "exited"
            /\ exit_code' = 1
            /\ UNCHANGED idx
    /\ UNCHANGED <<app, containers, recursive, containers_to_pull,
                   containers_to_build, pulled_containers, failed_pulls,
                   ancestors_to_build, ancestry, hooks_run>>
    /\ UNCHANGED <<volumeVars, pluginVars, hookVars, moreVars>>

\* lines 285-295: the queue is through
Finish ==
    /\ pc = "build"
    /\ idx > Len(ancestors_to_build)
    /\ hooks_run' = Append(hooks_run, <<"POST_GROUP_BUILD", ancestors_to_build>>)
    /\ pc' = "done"
    /\ exit_code' = 0
    /\ UNCHANGED <<app, containers, recursive, containers_to_pull,
                   containers_to_build, pulled_containers, failed_pulls,
                   ancestors_to_build, ancestry, idx, log>>
    /\ UNCHANGED <<volumeVars, pluginVars, hookVars, moreVars>>

NextBuild ==
    \/ Expand
    \/ \E ok \in BOOLEAN : Pull(ok)
    \/ Resolve
    \/ WalkFailedBefore
    \/ WalkPulledBefore
    \/ \E ok \in BOOLEAN : WalkPull(ok)
    \/ Sort
    \/ \E ok \in BOOLEAN : Build(ok)
    \/ Finish

SpecBuild == InitBuild /\ [][NextBuild]_vars

\* ------------------------------------------------------------------ post_build()
\* catalogs for the volume hook: container 1, or 1 and 2, declare the volume,
\* some of the others mount it
VolumeCatalogs ==
    {Catalog(NoParents, NoDependencies, v, NoMarks) :
        v \in {w \in VolumeMaps : w.pv[1] = "vol"}}

Mounters == {c \in Containers : "vol" \in app.named_volumes[c]}

InitVolume ==
    /\ app \in VolumeCatalogs
    /\ \E l \in {Absent, "unlabelled", "sha:1"} :
           host = [label |-> l, content |-> l, running |-> {}, stopped |-> {},
                   run |-> Absent]
    /\ pb = NoCall
    /\ last = NoLast
    /\ before = host
    /\ ops = <<>>
    /\ nbuilds = 0
    /\ NoBuild
    /\ NoPlugins
    /\ NoHooks
    /\ NoMore

\* faulty variant: every build of a volume provider extracts the volume again
should_extract_volume_always(provides_volume, image_id) ==
    provides_volume # NoVolume

\* lines 86-94
should_extract_volume(provides_volume, image_id) ==
    IF provides_volume = NoVolume THEN FALSE
    ELSE IF host.label = Absent THEN TRUE
    ELSE host.label # image_id

\* the builder has built container's image and POST_BUILD fires; image is
\* inspect_image(container.image_name)["Id"]: lines 83-84
PostBuild(container, image) ==
    /\ pb.pc \in {"idle", "returned", "raised"}
    /\ nbuilds < MaxBuilds
    /\ nbuilds' = nbuilds + 1
    /\ pb' = [pc |-> "should_extract", container |-> container, image |-> image,
              provides_volume |-> app.provides_volume[container],
              instances_to_remove |-> {}]
    /\ last' = [pc |-> pb.pc, container |-> pb.container, image |-> pb.image,
                provisioned |-> ops # <<>>]
    /\ before' = host
    /\ ops' = <<>>
    /\ UNCHANGED <<app, host, buildVars, pluginVars, hookVars, moreVars>>

\* line 96
ShouldExtract ==
    /\ pb.pc = "should_extract"
    /\ pb' = [pb EXCEPT !.pc = IF should_extract_volume(pb.provides_volume, pb.image)
                                THEN "introspect" ELSE "returned"]
    /\ UNCHANGED <<app, host, last, before, ops, nbuilds,
                   buildVars, pluginVars, hookVars, moreVars>>

\* faulty variant: the instances that mount the volume are left running
Introspect_skip ==
    /\ pb.pc = "introspect"
    /\ pb' = [pb EXCEPT !.pc = "gc"]
    /\ UNCHANGED <<app, host, ops, last, before, nbuilds,
                   buildVars, pluginVars, hookVars, moreVars>>

\* lines 98-105: the running instances that mount the volume are stopped
Introspect ==
    /\ pb.pc = "introspect"
    /\ LET instances == host.running \cap Mounters IN
       IF instances # {}
       THEN /\ host' = [host EXCEPT !.running = host.running \ instances,
                                    !.stopped = host.stopped \cup instances]
            /\ ops' = Append(ops, <<"stop", instances>>)
            /\ pb' = [pb EXCEPT !.pc = "remove", !.instances_to_remove = instances]
       ELSE /\ pb' = [pb EXCEPT !.pc = "gc"]
            /\ UNCHANGED <<host, ops>>
    /\ UNCHANGED <<app, last, before, nbuilds,
                   buildVars, pluginVars, hookVars, moreVars>>

\* lines 107-110: remove_container of one stopped instance; it may raise
RemoveInstance(ok) ==
    /\ pb.pc = "remove"
    /\ LET instance == CHOOSE i \in pb.instances_to_remove :
                           \A j \in pb.instances_to_remove : i <= j
           rest == pb.instances_to_remove \ {instance}
       IN IF ok
          THEN /\ host' = [host EXCEPT !.stopped = host.stopped \ {instance}]
               /\ ops' = Append(ops, <<"remove_container", {instance}>>)
               /\ pb' = [pb EXCEPT !.instances_to_remove = rest,
                                   !.pc = IF rest = {} THEN "gc" ELSE "remove"]
          ELSE /\ pb' = [pb EXCEPT !.pc = "raised"]
               /\ UNCHANGED <<host, ops>>
    /\ UNCHANGED <<app, last, before, nbuilds,
                   buildVars, pluginVars, hookVars, moreVars>>

\* line 113: orphan stopped containers are pruned
Gc ==
    /\ pb.pc = "gc"
    /\ host' = [host EXCEPT !.stopped = {},
                            !.run = IF host.run = "started" THEN "started" ELSE Absent]
    /\ ops' = Append(ops, <<"gc_containers", {}>>)
    /\ pb' = [pb EXCEPT !.pc = "remove_volume"]
    /\ UNCHANGED <<app, last, before, nbuilds,
                   buildVars, pluginVars, hookVars, moreVars>>

\* lines 117-121: NotFound is tolerated
RemoveVolume ==
    /\ pb.pc = "remove_volume"
    /\ IF host.label = Absent
       THEN UNCHANGED <<host, ops>>
       ELSE /\ host' = [host EXCEPT !.label = Absent, !.content = Absent]
            /\ ops' = Append(ops, <<"remove_volume", {}>>)
    /\ pb' = [pb EXCEPT !.pc = "create_volume"]
    /\ UNCHANGED <<app, last, before, nbuilds,
                   buildVars, pluginVars, hookVars, moreVars>>

\* line 122
CreateVolume ==
    /\ pb.pc = "create_volume"
    /\ host' = [host EXCEPT !.label = pb.image, !.content = "empty"]
    /\ ops' = Append(ops, <<"create_volume", {}>>)
    /\ pb' = [pb EXCEPT !.pc = "create_container"]
    /\ UNCHANGED <<app, last, before, nbuilds,
                   buildVars, pluginVars, hookVars, moreVars>>

\* lines 125-134
CreateContainer ==
    /\ pb.pc = "create_container"
    /\ host' = [host EXCEPT !.run = "created"]
    /\ ops' = Append(ops, <<"create_container", {}>>)
    /\ pb' = [pb EXCEPT !.pc = "start"]
    /\ UNCHANGED <<app, last, before, nbuilds,
                   buildVars, pluginVars, hookVars, moreVars>>

\* line 137; it may raise
Start(ok) ==
    /\ pb.pc = "start"
    /\ IF ok
       THEN /\ host' = [host EXCEPT !.run = "started"]
            /\ ops' = Append(ops, <<"start", {}>>)
            /\ pb' = [pb EXCEPT !.pc = "wait"]
       ELSE /\ pb' = [pb EXCEPT !.pc = "raised"]
            /\ UNCHANGED <<host, ops>>
    /\ UNCHANGED <<app, last, before, nbuilds,
                   buildVars, pluginVars, hookVars, moreVars>>

\* line 138: the run has filled the volume when wait returns; it may raise
Wait(ok) ==
    /\ pb.pc = "wait"
    /\ IF ok
       THEN /\ host' = [host EXCEPT !.run = "exited", !.content = pb.image]
            /\ pb' = [pb EXCEPT !.pc = "remove_container"]
       ELSE /\ host' = [host EXCEPT !.content = "partial"]
            /\ pb' = [pb EXCEPT !.pc = "raised"]
    /\ ops' = Append(ops, <<"wait", {}>>)
    /\ UNCHANGED <<app, last, before, nbuilds,
                   buildVars, pluginVars, hookVars, moreVars>>

\* lines 139-140
RemoveContainer ==
    /\ pb.pc = "remove_container"
    /\ host' = [host EXCEPT !.run = Absent]
    /\ ops' = Append(ops, <<"remove_container", {}>>)
    /\ pb' = [pb EXCEPT !.pc = "returned"]
    /\ UNCHANGED <<app, last, before, nbuilds,
                   buildVars, pluginVars, hookVars, moreVars>>

\* between builds an instance of a container that mounts the volume is started
RunInstance(container) ==
    /\ pb.pc \in {"idle", "returned", "raised"}
    /\ container \in Mounters \ host.running
    /\ host' = [host EXCEPT !.running = host.running \cup {container}]
    /\ pb' = [pb EXCEPT !.pc = "idle"]
    /\ UNCHANGED <<app, last, before, ops, nbuilds,
                   buildVars, pluginVars, hookVars, moreVars>>

NextVolume ==
    \/ \E c \in Containers, i \in ImageIds : PostBuild(c, i)
    \/ ShouldExtract
    \/ Introspect
    \/ \E ok \in BOOLEAN : RemoveInstance(ok)
    \/ Gc
    \/ RemoveVolume
    \/ CreateVolume
    \/ CreateContainer
    \/ \E ok \in BOOLEAN : Start(ok)
    \/ \E ok \in BOOLEAN : Wait(ok)
    \/ RemoveContainer
    \/ \E c \in Containers : RunInstance(c)

SpecVolume == InitVolume /\ [][NextVolume]_vars

\* ------------------------------------------------------------------ load_plugins()
Capabilities == {"build", "up", "gc"}

\* build.py line 35; requires is BasePlugin's default, base.py line 43
BuildPlugin == [name |-> "BuildPlugin", provides |-> {"build"}, requires |-> {}]
\* profile.py line 22
ProfilesPlugin == [name |-> "ProfilesPlugin", provides |-> {"up"}, requires |-> {}]

ExtraPlugins(n) ==
    {[name |-> "ExtraPlugin", id |-> n, provides |-> p, requires |-> r] :
        p \in SUBSET Capabilities, r \in SUBSET Capabilities}

RECURSIVE Orders(_)
\* every order of a set of plugin classes
Orders(S) ==
    IF S = {} THEN {<<>>}
    ELSE UNION {{<<x>> \o o : o \in Orders(S \ {x})} : x \in S}

RECURSIVE ExtraChoices(_)
\* sets of n extra plugin classes beside the two of the repository
ExtraChoices(n) ==
    IF n = 0 THEN {{}}
    ELSE UNION {{S \cup {x} : x \in ExtraPlugins(n)} : S \in ExtraChoices(n - 1)}

Named(c) == [name |-> c.name, id |-> 0, provides |-> c.provides, requires |-> c.requires]

InitPlugins ==
    /\ \E extra \in ExtraChoices(NumExtraPlugins) :
           plugin_classes \in Orders({Named(BuildPlugin), Named(ProfilesPlugin)} \cup extra)
    /\ plugins = <<>>
    /\ loaded = <<>>
    /\ load_pc = "instantiate"
    /\ app = Catalog(NoParents, NoDependencies, NoVolumes, NoMarks)
    /\ NoBuild
    /\ NoHost
    /\ NoHooks
    /\ NoMore

\* the loaded plugins whose provides hold the string
Providers(capability) ==
    {i \in DOMAIN plugins : capability \in plugins[i].provides}

\* faulty variant: only a missing capability is an error
DependenciesMet_some ==
    \A i \in DOMAIN plugins : \A r \in plugins[i].requires : Providers(r) # {}

\* every requires string is in exactly one loaded plugin's provides
DependenciesMet ==
    \A i \in DOMAIN plugins :
        \A r \in plugins[i].requires : Cardinality(Providers(r)) = 1

\* each plugin class is instantiated against the app, in order
Instantiate ==
    /\ load_pc = "instantiate"
    /\ plugins' = Append(plugins, plugin_classes[Len(plugins) + 1])
    /\ load_pc' = IF Len(plugins') = Len(plugin_classes) THEN "validate"
                  ELSE "instantiate"
    /\ UNCHANGED <<app, plugin_classes, loaded, buildVars, volumeVars, hookVars, moreVars>>

\* the dependency contract is validated before any load()
Validate ==
    /\ load_pc = "validate"
    /\ load_pc' = IF DependenciesMet THEN "load" ELSE "PluginDependencyError"
    /\ UNCHANGED <<app, plugin_classes, plugins, loaded, buildVars, volumeVars,
                   hookVars, moreVars>>

\* load() of each plugin, in order
Load ==
    /\ load_pc = "load"
    /\ loaded' = Append(loaded, plugins[Len(loaded) + 1])
    /\ load_pc' = IF Len(loaded') = Len(plugins) THEN "done" ELSE "load"
    /\ UNCHANGED <<app, plugin_classes, plugins, buildVars, volumeVars, hookVars, moreVars>>

NextPlugins ==
    \/ Instantiate
    \/ Validate
    \/ Load

SpecPlugins == InitPlugins /\ [][NextPlugins]_vars

\* ------------------------------------------------------------------ hooks
\* callables other plugins register
OtherCallables == {"hook_a", "hook_b"}

InitHooks ==
    /\ hooks = [t \in HookTypes |-> <<>>]
    /\ registered = <<>>
    /\ dispatch = [pc |-> "idle", hook_type |-> "PRE_START", next |-> 1]
    /\ invoked = <<>>
    /\ plugin_classes = <<>>
    /\ plugins = <<>>
    /\ loaded = <<>>
    /\ load_pc = "load"
    /\ app = Catalog(NoParents, NoDependencies, NoVolumes, NoMarks)
    /\ NoBuild
    /\ NoHost
    /\ NoMore

\* app.add_hook: the callable goes to the end of the hook type's list
app_add_hook(registry, hook_type, func) ==
    [registry EXCEPT ![hook_type] = Append(registry[hook_type], func)]

\* faulty variant: every callable is registered for PRE_START
add_hook_one_type(registry, hook_type, func) ==
    app_add_hook(registry, "PRE_START", func)

\* BasePlugin.add_hook, base.py lines 54-55
add_hook(registry, hook_type, func) == app_add_hook(registry, hook_type, func)

\* BuildPlugin.load, build.py lines 37-41
LoadBuildPlugin ==
    /\ load_pc = "load"
    /\ ~InSeq("BuildPlugin", loaded)
    /\ loaded' = Append(loaded, "BuildPlugin")
    /\ hooks' = add_hook(add_hook(hooks, "PRE_START", "pre_start"),
                         "POST_BUILD", "post_build")
    /\ registered' = registered \o <<<<"PRE_START", "pre_start">>,
                                     <<"POST_BUILD", "post_build">>>>
    /\ UNCHANGED <<app, plugin_classes, plugins, load_pc, dispatch, invoked,
                   buildVars, volumeVars, moreVars>>

\* load() of some other plugin registers a hook
LoadOtherPlugin(hook_type, func) ==
    /\ load_pc = "load"
    /\ Len(SelectSeq(loaded, LAMBDA n : n = "ExtraPlugin")) < MaxHooks
    /\ loaded' = Append(loaded, "ExtraPlugin")
    /\ hooks' = add_hook(hooks, hook_type, func)
    /\ registered' = Append(registered, <<hook_type, func>>)
    /\ UNCHANGED <<app, plugin_classes, plugins, load_pc, dispatch, invoked,
                   buildVars, volumeVars, moreVars>>

\* loading is over: the registry is read-only from here
FinishLoad ==
    /\ load_pc = "load"
    /\ load_pc' = "done"
    /\ UNCHANGED <<app, plugin_classes, plugins, loaded, hooks, registered,
                   dispatch, invoked, buildVars, volumeVars, moreVars>>

\* run_hooks(hook_type, **context) is called
RunHooks(hook_type) ==
    /\ load_pc = "done"
    /\ dispatch.pc \in {"idle", "returned", "raised"}
    /\ dispatch' = [pc |-> IF hooks[hook_type] = <<>> THEN "returned" ELSE "running",
                    hook_type |-> hook_type, next |-> 1]
    /\ invoked' = <<>>
    /\ UNCHANGED <<app, plugin_classes, plugins, loaded, load_pc, hooks,
                   registered, buildVars, volumeVars, moreVars>>

\* the next callable is invoked; an exception it raises leaves run_hooks
Invoke(ok) ==
    /\ dispatch.pc = "running"
    /\ invoked' = Append(invoked, hooks[dispatch.hook_type][dispatch.next])
    /\ dispatch' =
           IF ~ok THEN [dispatch EXCEPT !.pc = "raised"]
           ELSE IF dispatch.next = Len(hooks[dispatch.hook_type])
           THEN [dispatch EXCEPT !.pc = "returned"]
           ELSE [dispatch EXCEPT !.next = dispatch.next + 1]
    /\ UNCHANGED <<app, plugin_classes, plugins, loaded, load_pc, hooks,
                   registered, buildVars, volumeVars, moreVars>>

NextHooks ==
    \/ LoadBuildPlugin
    \/ \E t \in HookTypes, f \in OtherCallables : LoadOtherPlugin(t, f)
    \/ FinishLoad
    \/ \E t \in HookTypes : RunHooks(t)
    \/ \E ok \in BOOLEAN : Invoke(ok)

SpecHooks == InitHooks /\ [][NextHooks]_vars

\* ------------------------------------------------------------------ elapsed time
\* text is a list of characters
DigitChars == <<"0", "1", "2", "3", "4", "5", "6", "7", "8", "9">>

RECURSIVE Decimal(_)
\* "%d" of a natural number
Decimal(n) ==
    IF n < 10 THEN <<DigitChars[n + 1]>>
    ELSE Append(Decimal(n \div 10), DigitChars[(n % 10) + 1])

\* "%d" of an integer
SignedDecimal(n) == IF n < 0 THEN <<"-">> \o Decimal(0 - n) ELSE Decimal(n)

\* "%02d" of a natural number
Decimal02(n) == IF n < 10 THEN <<"0">> \o Decimal(n) ELSE Decimal(n)

\* the days of timedelta(seconds=delta), normalised: the seconds are in 0..86399
timedelta_days(delta) ==
    IF delta >= 0 THEN delta \div 86400 ELSE 0 - ((86399 - delta) \div 86400)
timedelta_seconds(delta) == delta - 86400 * timedelta_days(delta)

\* str(end_time - start_time), datetime.timedelta.__str__: "H:MM:SS" with
\* "D day, " or "D days, " before it when the days are not 0
timedelta_str(delta) ==
    LET days == timedelta_days(delta)
        seconds == timedelta_seconds(delta)
        hh == seconds \div 3600
        mm == (seconds \div 60) % 60
        ss == seconds % 60
        plural == IF days = 1 \/ days = -1 THEN <<>> ELSE <<"s">>
    IN (IF days # 0
        THEN SignedDecimal(days) \o <<" ", "d", "a", "y">> \o plural \o <<",", " ">>
        ELSE <<>>)
       \o Decimal(hh) \o <<":">> \o Decimal02(mm) \o <<":">> \o Decimal02(ss)

\* time_delta_str.startswith('0:')
startswith_0_colon(str) == Len(str) >= 2 /\ str[1] = "0" /\ str[2] = ":"

\* faulty variant: the first two characters are cut off whatever they are
strip_hours_always(str) == SubSeq(str, 3, Len(str))

\* lines 292-294
strip_hours(str) ==
    IF startswith_0_colon(str) THEN SubSeq(str, 3, Len(str)) ELSE str

\* the clock when build() begins; end_time is read from the same clock later.
\* A clock set back during the run gives an end_time before start_time.
StartTimes == {0, 90}
EndTimes == 0..(MaxHours * 3600)

InitElapsed ==
    /\ start_time \in StartTimes
    /\ end_time = start_time
    /\ time_delta_str = <<>>
    /\ time_pc = "running"
    /\ app = Catalog(NoParents, NoDependencies, NoVolumes, NoMarks)
    /\ NoBuild
    /\ NoHost
    /\ NoPlugins
    /\ NoHooks
    /\ NoStart
    /\ NoOrder

\* line 290: datetime.datetime.now().replace(microsecond=0)
Now(t) ==
    /\ time_pc = "running"
    /\ end_time' = t
    /\ time_pc' = "now"
    /\ UNCHANGED <<app, start_time, time_delta_str, buildVars, volumeVars,
                   pluginVars, hookVars, startVars, orderVars>>

\* line 291
Format ==
    /\ time_pc = "now"
    /\ time_delta_str' = timedelta_str(end_time - start_time)
    /\ time_pc' = "formatted"
    /\ UNCHANGED <<app, start_time, end_time, buildVars, volumeVars,
                   pluginVars, hookVars, startVars, orderVars>>

\* lines 292-295: the text echoed as the total build time
Echo ==
    /\ time_pc = "formatted"
    /\ time_delta_str' = strip_hours(time_delta_str)
    /\ time_pc' = "echoed"
    /\ UNCHANGED <<app, start_time, end_time, buildVars, volumeVars,
                   pluginVars, hookVars, startVars, orderVars>>

NextElapsed ==
    \/ time_pc = "running" /\ \E t \in EndTimes : Now(t)
    \/ Format
    \/ Echo

SpecElapsed == InitElapsed /\ [][NextElapsed]_vars

\* ------------------------------------------------------------------ pre_start()
\* catalogs for the PRE_START hook: any container may mount and declare volumes
StartCatalogs ==
    {Catalog(NoParents, NoDependencies, [nv |-> nv, pv |-> pv], NoMarks) :
        nv \in [Containers -> SUBSET Volumes],
        pv \in [Containers -> Volumes \cup {NoVolume}]}

\* the host of the hook: the named volumes that exist on it
InitStart ==
    /\ app \in StartCatalogs
    /\ host \in [volumes : SUBSET Volumes]
    /\ ps = [pc |-> "idle", instance |-> NoContainer, todo |-> <<>>]
    /\ before = host
    /\ ops = <<>>
    /\ pb = NoCall
    /\ last = NoLast
    /\ nbuilds = 0
    /\ NoBuild
    /\ NoPlugins
    /\ NoHooks
    /\ NoElapsed
    /\ NoOrder

\* PRE_START fires for an instance of container: line 43
PreStart(container) ==
    /\ ps.pc \in {"idle", "returned", "raised"}
    /\ ps' = [pc |-> "safety_net", instance |-> container, todo |-> <<>>]
    /\ before' = host
    /\ ops' = <<>>
    /\ UNCHANGED <<app, host, pb, last, nbuilds, buildVars, pluginVars, hookVars,
                   timeVars, orderVars>>

\* the loop over the named volumes goes on with rest, or the hook returns
NextVolumeName(rest) ==
    [ps EXCEPT !.todo = rest, !.pc = IF rest = <<>> THEN "returned" ELSE "loop"]

\* lines 49-56: a volume-providing container is not started
SafetyNet ==
    /\ ps.pc = "safety_net"
    /\ ps' = IF app.provides_volume[ps.instance] # NoVolume
             THEN [ps EXCEPT !.pc = "raised"]
             ELSE NextVolumeName(VolSeq(app.named_volumes[ps.instance]))
    /\ UNCHANGED <<app, host, before, ops, pb, last, nbuilds, buildVars,
                   pluginVars, hookVars, timeVars, orderVars>>

\* faulty variant: the provider is built whether the volume exists or not
InspectVolume_rebuild ==
    /\ ps.pc = "loop"
    /\ LET name == Head(ps.todo) IN
       IF _get_providers[name] = NoContainer
       THEN /\ ps' = NextVolumeName(Tail(ps.todo))
            /\ UNCHANGED ops
       ELSE /\ ops' = Append(ops, <<"inspect_volume", name>>)
            /\ ps' = [ps EXCEPT !.pc = "build"]
    /\ UNCHANGED <<app, host, before, pb, last, nbuilds, buildVars,
                   pluginVars, hookVars, timeVars, orderVars>>

\* lines 56-61: the next named volume; one with a provider is inspected
InspectVolume ==
    /\ ps.pc = "loop"
    /\ LET name == Head(ps.todo) IN
       IF _get_providers[name] = NoContainer
       THEN /\ ps' = NextVolumeName(Tail(ps.todo))
            /\ UNCHANGED ops
       ELSE /\ ops' = Append(ops, <<"inspect_volume", name>>)
            /\ ps' = IF name \in host.volumes
                     THEN NextVolumeName(Tail(ps.todo))
                     ELSE [ps EXCEPT !.pc = "build"]
    /\ UNCHANGED <<app, host, before, pb, last, nbuilds, buildVars,
                   pluginVars, hookVars, timeVars, orderVars>>

\* lines 62-74: NotFound, the provider is built. A build that succeeds has
\* fired POST_BUILD, whose post_build has created the volume; a build that
\* fails raises out of the hook.
BuildProvider(ok) ==
    /\ ps.pc = "build"
    /\ LET name == Head(ps.todo) IN
       /\ ops' = Append(ops, <<"build", _get_providers[name]>>)
       /\ IF ok
          THEN /\ host' = [host EXCEPT !.volumes = host.volumes \cup {name}]
               /\ ps' = NextVolumeName(Tail(ps.todo))
          ELSE /\ ps' = [ps EXCEPT !.pc = "raised"]
               /\ UNCHANGED host
    /\ UNCHANGED <<app, before, pb, last, nbuilds, buildVars,
                   pluginVars, hookVars, timeVars, orderVars>>

NextStart ==
    \/ \E c \in Containers : PreStart(c)
    \/ SafetyNet
    \/ InspectVolume
    \/ \E ok \in BOOLEAN : BuildProvider(ok)

SpecStart == InitStart /\ [][NextStart]_vars

\* ------------------------------------------------------------------ PluginMetaclass
\* a plugin class is its __name__, a list of characters, and its id()
NameChars == {"P", "1"}

RECURSIVE NameTails(_)
\* what may follow the first letter of a class name, up to n characters
NameTails(n) ==
    IF n = 0 THEN {<<>>}
    ELSE NameTails(n - 1) \cup
         {Append(t, ch) : t \in {u \in NameTails(n - 1) : Len(u) = n - 1},
                          ch \in NameChars}

\* class names: identifiers, a letter first
ClassNames == {<<"P">> \o t : t \in NameTails(MaxNameLen - 1)}
ClassIds == 1..MaxId

\* the code point of a character of a class name or of a digit
ord(ch) ==
    IF ch = "P" THEN 80
    ELSE 47 + (CHOOSE i \in DOMAIN DigitChars : DigitChars[i] = ch)

RECURSIVE str_lt(_, _)
\* s < t of two Python strings: by code point, a proper prefix first
str_lt(s, t) ==
    IF t = <<>> THEN FALSE
    ELSE IF s = <<>> THEN TRUE
    ELSE IF ord(Head(s)) # ord(Head(t)) THEN ord(Head(s)) < ord(Head(t))
    ELSE str_lt(Tail(s), Tail(t))

\* base.py lines 9-15: self.__name__ + str(id(self))
_orderable_id(cls) == cls.name \o Decimal(cls.id)

\* base.py lines 17-27
__gt__(self, other) == str_lt(_orderable_id(other), _orderable_id(self))
__lt__(self, other) == str_lt(_orderable_id(self), _orderable_id(other))
__eq__(self, other) == _orderable_id(self) = _orderable_id(other)
__ne__(self, other) == _orderable_id(self) # _orderable_id(other)

\* three plugin classes of one process, listed by id: no two objects that
\* live at the same time have the same id
InitOrder ==
    /\ \E n1, n2, n3 \in ClassNames :
           \E i1, i2, i3 \in ClassIds :
               /\ i1 < i2
               /\ i2 < i3
               /\ classes = <<[name |-> n1, id |-> i1], [name |-> n2, id |-> i2],
                              [name |-> n3, id |-> i3]>>
    /\ compared = <<>>
    /\ app = Catalog(NoParents, NoDependencies, NoVolumes, NoMarks)
    /\ NoBuild
    /\ NoHost
    /\ NoPlugins
    /\ NoHooks
    /\ NoElapsed
    /\ NoStart

\* two of the classes are compared, as a sort of the classes does
Compare(a, b) ==
    /\ compared = <<>>
    /\ compared' = [a |-> a, b |-> b,
                    lt |-> __lt__(classes[a], classes[b]),
                    gt |-> __gt__(classes[a], classes[b]),
                    eq |-> __eq__(classes[a], classes[b]),
                    ne |-> __ne__(classes[a], classes[b])]
    /\ UNCHANGED <<app, classes, buildVars, volumeVars, pluginVars, hookVars,
                   timeVars, startVars>>

NextOrder == \E a, b \in DOMAIN classes : Compare(a, b)

SpecOrder == InitOrder /\ [][NextOrder]_vars

\* ------------------------------------------------------------------ claims
RECURSIVE AncestorChain(_)
\* the build ancestors of c, newest (its parent) first
AncestorChain(c) ==
    IF app.build_parent[c] = NoContainer THEN <<>>
    ELSE <<app.build_parent[c]>> \o AncestorChain(app.build_parent[c])

\* the final build list is fixed
Planned == pc \in {"build", "done", "exited"}
PullOk(c) == \E i \in DOMAIN log : log[i] = [op |-> "pull", c |-> c, ok |-> TRUE]
PullFailed(c) == \E i \in DOMAIN log : log[i] = [op |-> "pull", c |-> c, ok |-> FALSE]
Builds == SelectSeq(log, LAMBDA e : e.op = "build")
Pulls == SelectSeq(log, LAMBDA e : e.op = "pull")
\* the explicitly requested containers and their volume providers
Requested == SeqToSet(ExpandToBuild(containers))

\* C1 as stated: every container whose build is started had a pull attempted
\* earlier in the run, and that pull failed.
C1_PullBeforeEveryBuild ==
    \A i \in DOMAIN log :
        log[i].op = "build" =>
            /\ \E j \in 1..(i - 1) :
                   log[j] = [op |-> "pull", c |-> log[i].c, ok |-> FALSE]
            /\ ~PullOk(log[i].c)

\* C1 amended: no pull is started once a build has started; every container
\* whose build is started and that is neither explicitly requested nor the
\* volume provider of an explicitly requested container had a pull attempted
\* earlier in the run, the pull failed, and it was never pulled successfully.
C1_PullBeforeFallbackBuild ==
    /\ \A i, j \in DOMAIN log :
           (i < j /\ log[i].op = "build") => log[j].op = "build"
    /\ \A i \in DOMAIN log :
           (log[i].op = "build" /\ log[i].c \notin Requested) =>
               /\ \E j \in 1..(i - 1) :
                      log[j] = [op |-> "pull", c |-> log[i].c, ok |-> FALSE]
               /\ ~PullOk(log[i].c)

C1_Witness ==
    \E i, j \in DOMAIN log :
        /\ j < i
        /\ log[i].op = "build"
        /\ log[i].c \notin Requested
        /\ log[j] = [op |-> "pull", c |-> log[i].c, ok |-> FALSE]

\* C2: the final build list, as handed to PRE_GROUP_BUILD and as executed, has
\* no duplicates and holds every build ancestor before its descendants; a
\* build is started only after the builds before it in the list succeeded.
C2_BuildOrder ==
    Planned =>
        /\ NoDup(ancestors_to_build)
        /\ \A i, j \in DOMAIN ancestors_to_build :
               InSeq(ancestors_to_build[i], AncestorChain(ancestors_to_build[j]))
                   => i < j
        /\ hooks_run[1] = <<"PRE_GROUP_BUILD", ancestors_to_build>>
        /\ Len(Builds) <= Len(ancestors_to_build)
        /\ \A k \in DOMAIN Builds :
               /\ Builds[k].c = ancestors_to_build[k]
               /\ k < Len(Builds) => Builds[k].ok

C2_Witness ==
    /\ pc = "done"
    /\ Len(containers) = 2
    /\ containers[1] # Profile
    /\ app.build_parent[containers[1]] = containers[2]
    /\ ancestors_to_build = <<containers[2], containers[1]>>
    /\ Len(Builds) = 2

\* the ancestors of c that had to be built: those newer than the nearest
\* ancestor whose pull succeeded, oldest first
RECURSIVE NewerThanPulled(_)
NewerThanPulled(chain) ==
    IF chain = <<>> \/ PullOk(Head(chain)) THEN <<>>
    ELSE Append(NewerThanPulled(Tail(chain)), Head(chain))

RECURSIVE WalkedChain(_)
\* the ancestors the walk attempts: up to and with the nearest pulled one
WalkedChain(chain) ==
    IF chain = <<>> THEN <<>>
    ELSE IF PullOk(Head(chain)) THEN <<Head(chain)>>
    ELSE <<Head(chain)>> \o WalkedChain(Tail(chain))

SingleTarget ==
    /\ recursive
    /\ Len(containers) = 1
    /\ containers[1] # Profile

\* C3 as stated: for a single explicit target T with recursive enabled the
\* final build order is T preceded by exactly the ancestors newer than the
\* nearest successfully pulled ancestor, oldest first, and older ancestors are
\* neither pulled nor built.
C3_SingleTargetChain ==
    (Planned /\ SingleTarget) =>
        LET T == containers[1] IN
        /\ ancestors_to_build = Append(NewerThanPulled(AncestorChain(T)), T)
        /\ \A i \in DOMAIN Pulls :
               InSeq(Pulls[i].c, WalkedChain(AncestorChain(T)))

\* C3 amended: the same, for a target T that mounts no named volume with a
\* provider (so that T is the only queued container); the pulls attempted are
\* exactly those of the walked ancestors, newest first.
C3_SingleTargetChainNoProvider ==
    (Planned /\ SingleTarget /\ ExpandToBuild(containers) = containers) =>
        LET T == containers[1] IN
        /\ ancestors_to_build = Append(NewerThanPulled(AncestorChain(T)), T)
        /\ [i \in DOMAIN Pulls |-> Pulls[i].c] = WalkedChain(AncestorChain(T))

C3_Witness ==
    /\ Planned
    /\ SingleTarget
    /\ ExpandToBuild(containers) = containers
    /\ Len(AncestorChain(containers[1])) = 2
    /\ PullOk(app.build_parent[containers[1]])
    /\ ancestors_to_build = containers
    /\ Len(Pulls) = 1

\* C4: with recursive enabled every container of the final build list that
\* has a build parent has the parent earlier in the list or pulled
\* successfully in this run.
C4_ParentBuiltOrPulled ==
    (Planned /\ recursive) =>
        \A j \in DOMAIN ancestors_to_build :
            LET parent == app.build_parent[ancestors_to_build[j]] IN
            parent # NoContainer =>
                \/ \E i \in 1..(j - 1) : ancestors_to_build[i] = parent
                \/ PullOk(parent)

\* C5 as stated: the final build list holds no container whose pull succeeded
\* in this run.
C5_NoPulledInBuildList ==
    Planned => \A i \in DOMAIN ancestors_to_build : ~PullOk(ancestors_to_build[i])

\* C5 amended: a container of the final build list whose pull succeeded in
\* this run is an explicitly requested container or the volume provider of
\* one; every other container of the list had its pull fail, so the sort
\* reintroduces no successfully pulled ancestor.
C5_NoPulledAncestorInBuildList ==
    Planned =>
        \A i \in DOMAIN ancestors_to_build :
            ancestors_to_build[i] \notin Requested =>
                /\ ~PullOk(ancestors_to_build[i])
                /\ PullFailed(ancestors_to_build[i])

C5_Witness ==
    /\ Planned
    /\ \E i \in DOMAIN ancestors_to_build :
           LET parent == app.build_parent[ancestors_to_build[i]] IN
           /\ parent # NoContainer
           /\ PullOk(parent)
           /\ ~InSeq(parent, ancestors_to_build)
           /\ InSeq(parent, dependency_sort(ancestors_to_build, build_parent_edges))

\* the containers the profile sentinel stands for
Marked == {c \in Containers : c \in app.in_profile \/ c \in app.system}
\* the container registered as provider of v: the last one declaring it
RegisteredProvider(v) ==
    LET P == {c \in Containers : app.provides_volume[c] = v}
    IN IF P = {} THEN NoContainer ELSE CHOOSE c \in P : \A d \in P : d <= c
MarkedProviders ==
    {RegisteredProvider(v) : v \in UNION {app.named_volumes[c] : c \in Marked}}
        \ {NoContainer}

\* C6 as stated: the profile sentinel makes the pull candidates exactly the
\* containers marked in_profile or system plus the providers of the named
\* volumes they mount, each once.
C6_ProfileCandidatesExact ==
    (pc # "expand" /\ InSeq(Profile, containers)) =>
        /\ NoDup(containers_to_pull)
        /\ SeqToSet(containers_to_pull) = Marked \cup MarkedProviders

\* C6 amended: the pull candidates are the containers marked in_profile or
\* system, the registered providers of the named volumes they mount (the last
\* container of the catalog declaring the volume), and the transitive runtime
\* dependencies of all of these, each once.
C6_ProfileCandidatesWithDependencies ==
    (pc # "expand" /\ InSeq(Profile, containers)) =>
        /\ NoDup(containers_to_pull)
        /\ SeqToSet(containers_to_pull) =
               Reach(app.dependencies, Marked \cup MarkedProviders, NumContainers)

C6_Witness ==
    /\ pc # "expand"
    /\ InSeq(Profile, containers)
    /\ \E a, b, p \in Containers :
           /\ a # b
           /\ {a, b} \subseteq Marked
           /\ p \notin Marked
           /\ app.named_volumes[a] = {"vol"}
           /\ app.named_volumes[b] = {"vol"}
           /\ app.provides_volume[p] = "vol"
           /\ SeqToSet(containers_to_pull) = {a, b, p}
           /\ Len(containers_to_pull) = 3

\* C7: when a build fails no later build is started, the failed build is not
\* retried, the builds before it stay completed, POST_GROUP_BUILD is not
\* fired and the command has exited with code 1.
C7_BuildFailureAborts ==
    \A k \in DOMAIN Builds :
        ~Builds[k].ok =>
            /\ k = Len(Builds)
            /\ log[Len(log)] = Builds[k]
            /\ \A i \in 1..(k - 1) :
                   /\ Builds[i].ok
                   /\ Builds[i].c = ancestors_to_build[i]
                   /\ Builds[i].c # Builds[k].c
            /\ pc = "exited"
            /\ exit_code = 1
            /\ Len(hooks_run) = 1

C7_Witness ==
    /\ pc = "exited"
    /\ exit_code = 1
    /\ Len(ancestors_to_build) = 3
    /\ Len(Builds) = 2
    /\ Builds[1].ok
    /\ ~Builds[2].ok

\* the running post_build call repeats the one before it, which returned
Repeat ==
    /\ pb.pc # "idle"
    /\ last.pc = "returned"
    /\ last.container = pb.container
    /\ last.image = pb.image

\* C8: a post_build call that directly follows a returned call for the same
\* container and the same image identity changes nothing: it stops and removes
\* no container, removes and creates no volume and runs no container.
C8_SecondPostBuildNoOp ==
    Repeat =>
        /\ pb.pc \in {"should_extract", "returned"}
        /\ ops = <<>>
        /\ host = before

C8_Witness ==
    /\ Repeat
    /\ pb.pc = "returned"
    /\ pb.provides_volume = "vol"
    /\ last.provisioned
    /\ host.label = pb.image

\* some requires string of a loaded plugin has no provider or several
BrokenContract ==
    \E i \in DOMAIN plugins :
        \E r \in plugins[i].requires :
            Cardinality({j \in DOMAIN plugins : r \in plugins[j].provides}) # 1

RegisteredFor(hook_type) ==
    LET regs == SelectSeq(registered, LAMBDA r : r[1] = hook_type)
    IN [i \in DOMAIN regs |-> regs[i][2]]

\* C10: run_hooks invokes the callables registered for the hook type in
\* registration order, one at a time; when one raises the dispatch ends
\* there with the ones before it run and none after it invoked.
C10_DispatchInRegistrationOrder ==
    dispatch.pc # "idle" =>
        LET regs == RegisteredFor(dispatch.hook_type) IN
        /\ Len(invoked) <= Len(regs)
        /\ invoked = SubSeq(regs, 1, Len(invoked))
        /\ dispatch.pc = "returned" => invoked = regs
        /\ dispatch.pc = "running" => Len(invoked) = dispatch.next - 1
        /\ dispatch.pc = "raised" => Len(invoked) = dispatch.next

C10_Witness ==
    /\ dispatch.pc = "raised"
    /\ dispatch.hook_type = "POST_BUILD"
    /\ Len(RegisteredFor("POST_BUILD")) = 3
    /\ invoked = SubSeq(RegisteredFor("POST_BUILD"), 1, 2)
    /\ invoked[1] # invoked[2]

\* the pull candidates whose pull failed
FailedCandidates == {c \in SeqToSet(containers_to_pull) : PullFailed(c)}
\* the containers whose pull was attempted, in the order of the attempts
PulledList == [i \in DOMAIN Pulls |-> Pulls[i].c]

\* C11: with recursive disabled no ancestor is walked or pulled: the pulls
\* attempted are those of the pull candidates only, and the final build list
\* holds exactly the explicitly requested containers, their volume providers
\* and the pull candidates whose pull failed, each once, every build parent
\* that is in the list before its children, whether or not the build parents
\* of its containers are available.
C11_NoAncestorBackfill ==
    ~recursive =>
        /\ pc # "walk"
        /\ ancestry = <<>>
        /\ pc \notin {"expand", "pull"} => PulledList = containers_to_pull
        /\ Planned =>
               /\ SeqToSet(ancestors_to_build) = Requested \cup FailedCandidates
               /\ NoDup(ancestors_to_build)
               /\ \A i, j \in DOMAIN ancestors_to_build :
                      InSeq(ancestors_to_build[i], AncestorChain(ancestors_to_build[j]))
                          => i < j

C11_Witness ==
    /\ Planned
    /\ ~recursive
    /\ Requested # {}
    /\ FailedCandidates \ Requested # {}
    /\ \E i \in DOMAIN ancestors_to_build :
           LET parent == app.build_parent[ancestors_to_build[i]] IN
           /\ parent # NoContainer
           /\ ~InSeq(parent, ancestors_to_build)
           /\ ~PullOk(parent)

\* C12: at every point of a build run no container is recorded both as pulled
\* and as failed, and the two records are the containers whose pull succeeded
\* and the containers whose pull failed.
C12_PulledFailedDisjoint ==
    /\ pulled_containers \cap failed_pulls = {}
    /\ pulled_containers = {c \in Containers : PullOk(c)}
    /\ failed_pulls = {c \in Containers : PullFailed(c)}

C12_Witness ==
    /\ pc = "walk"
    /\ idx > 1
    /\ Head(ancestry) \in failed_pulls
    /\ pulled_containers # {}
    /\ \E c \in failed_pulls : c \notin SeqToSet(containers_to_pull)

\* the elapsed whole seconds of the run
Elapsed == end_time - start_time
\* "MM:SS" of a duration under one hour
MinutesSeconds(d) == Decimal02(d \div 60) \o <<":">> \o Decimal02(d % 60)
\* place of the first ":" of a text, 0 when there is none
FirstColon(str) ==
    IF \E i \in DOMAIN str : str[i] = ":"
    THEN CHOOSE i \in DOMAIN str : str[i] = ":" /\ \A j \in 1..(i - 1) : str[j] # ":"
    ELSE 0
Colons(str) == Cardinality({i \in DOMAIN str : str[i] = ":"})

\* C13: for an elapsed duration of whole seconds (the clock not set back), the
\* text echoed is "MM:SS", without hours, exactly when the duration is under
\* one hour; for a duration of one hour or more it is the whole text of the
\* duration, whose hours are written before the minutes.
C13_HoursOmittedUnderOneHour ==
    (time_pc = "echoed" /\ Elapsed >= 0) =>
        /\ Elapsed < 3600 <=> Colons(time_delta_str) = 1
        /\ Elapsed < 3600 => time_delta_str = MinutesSeconds(Elapsed)
        /\ Elapsed >= 3600 =>
               /\ Colons(time_delta_str) = 2
               /\ time_delta_str = timedelta_str(Elapsed)
               /\ LET c == FirstColon(time_delta_str)
                      hours == (Elapsed % 86400) \div 3600
                  IN /\ SubSeq(time_delta_str, c + 1, Len(time_delta_str))
                            = MinutesSeconds(Elapsed % 3600)
                     /\ SubSeq(time_delta_str, c - Len(Decimal(hours)), c - 1)
                            = Decimal(hours)

C13_Witness ==
    /\ time_pc = "echoed"
    /\ Elapsed = 90
    /\ time_delta_str = <<"0", "1", ":", "3", "0">>

\* C14: PRE_GROUP_BUILD is fired once, when the resolution is over and no
\* build has started, with the final build list; POST_GROUP_BUILD is fired
\* once, with the same list, after the last build and only when every build
\* of the list has succeeded; after a failed build it is not fired.
C14_GroupHooksAroundBuilds ==
    /\ pc \in {"expand", "pull", "resolve", "walk", "sort"} =>
           (hooks_run = <<>> /\ Builds = <<>>)
    /\ pc = "build" =>
           /\ hooks_run = <<<<"PRE_GROUP_BUILD", ancestors_to_build>>>>
           /\ Len(Builds) = idx - 1
           /\ \A k \in DOMAIN Builds : Builds[k].ok
    /\ pc = "exited" =>
           /\ hooks_run = <<<<"PRE_GROUP_BUILD", ancestors_to_build>>>>
           /\ \E k \in DOMAIN Builds : ~Builds[k].ok
    /\ pc = "done" =>
           /\ hooks_run = <<<<"PRE_GROUP_BUILD", ancestors_to_build>>,
                            <<"POST_GROUP_BUILD", ancestors_to_build>>>>
           /\ [k \in DOMAIN Builds |-> Builds[k].c] = ancestors_to_build
           /\ \A k \in DOMAIN Builds : Builds[k].ok
    /\ (\E k \in DOMAIN Builds : ~Builds[k].ok) => pc = "exited"

C14_Witness ==
    /\ pc = "done"
    /\ Len(ancestors_to_build) = 3
    /\ Len(Builds) = 3
    /\ hooks_run[2] = <<"POST_GROUP_BUILD", ancestors_to_build>>
    /\ Pulls # <<>>

\* C15: while the ancestry of a queued container X is walked, every container
\* the walk goes to (to pull it, or to put it on the build list) is a strict
\* build ancestor of X: never X itself, never a container outside X's
\* build-parent chain.
C15_WalkOnlyStrictAncestors ==
    pc = "walk" =>
        \A i \in DOMAIN ancestry :
            InSeq(ancestry[i], AncestorChain(containers_to_build[idx]))

\* C16: no container's image pull is attempted twice in a run, in the pull
\* phase and all the ancestor walks together: the walk pulls neither a
\* container recorded as failed nor one recorded as pulled.
C16_PullAttemptedOnce ==
    /\ NoDup(PulledList)
    /\ SeqToSet(PulledList) = pulled_containers \cup failed_pulls

\* a walk has met a container whose pull had failed before (it is on the
\* build list twice) and one that was pulled in the pull phase
C16_Witness ==
    /\ pc = "sort"
    /\ recursive
    /\ \E i, j \in DOMAIN ancestors_to_build :
           /\ i < j
           /\ ancestors_to_build[i] = ancestors_to_build[j]
           /\ ancestors_to_build[i] \in failed_pulls
    /\ \E c \in pulled_containers :
           /\ InSeq(c, containers_to_pull)
           /\ \E x \in SeqToSet(containers_to_build) : app.build_parent[x] = c

RECURSIVE RemovalOps(_)
\* remove_container of each instance of S, one after the other
RemovalOps(S) ==
    IF S = {} THEN <<>>
    ELSE LET i == CHOOSE x \in S : \A y \in S : x <= y
         IN <<<<"remove_container", {i}>>>> \o RemovalOps(S \ {i})

\* the instances that were running with the volume mounted when the call began
MountedBefore == before.running \cap Mounters

\* the client calls of a whole provisioning, in order
Provisioning ==
    (IF MountedBefore # {}
     THEN <<<<"stop", MountedBefore>>>> \o RemovalOps(MountedBefore) ELSE <<>>)
    \o <<<<"gc_containers", {}>>>>
    \o (IF before.label # Absent THEN <<<<"remove_volume", {}>>>> ELSE <<>>)
    \o <<<<"create_volume", {}>>, <<"create_container", {}>>, <<"start", {}>>,
         <<"wait", {}>>, <<"remove_container", {}>>>>

Done(op) == InSeq(<<op, {}>>, ops)

\* C17: the client calls of a post_build call that provisions the volume are
\* made in this order: the running instances that mount the volume are
\* stopped, then removed, then stopped containers are pruned, then the volume
\* is removed if it exists, then created with label build_id = the image
\* identity, then the image is run on it and waited for, then the run's
\* container is removed. No instance mounting the volume is left when the
\* volume is removed, and when removing an instance fails the call ends with
\* the volume as it was.
C17_ProvisioningOrder ==
    pb.pc # "idle" =>
        /\ Len(ops) <= Len(Provisioning)
        /\ ops = SubSeq(Provisioning, 1, Len(ops))
        /\ (pb.pc = "returned" /\ ops # <<>>) => ops = Provisioning
        /\ Done("gc_containers") =>
               (host.running \cup host.stopped) \cap Mounters = {}
        /\ ~Done("gc_containers") =>
               (host.label = before.label /\ host.content = before.content)
        /\ (Done("create_volume") /\ pb.pc # "returned") => host.label = pb.image
        /\ Done("wait") => host.run # "created"
        /\ (pb.pc = "returned" /\ ops # <<>>) =>
               (host.label = pb.image /\ host.content = pb.image /\ host.run = Absent)

C17_Witness ==
    /\ pb.pc = "returned"
    /\ Cardinality(MountedBefore) = 2
    /\ before.label \in ImageIds
    /\ before.label # pb.image
    /\ ops = Provisioning
    /\ Len(ops) = 10

\* a removal of an instance failed: the call ended before the volume was touched
C17_RemovalFailed ==
    /\ pb.pc = "raised"
    /\ MountedBefore # {}
    /\ ~Done("gc_containers")
    /\ before.label \in ImageIds

\* C18: between post_build calls, whether they returned or raised, a volume
\* that exists with label build_id = I holds what a completed run of the
\* image with identity I has put into it.
C18_LabelledVolumeIsPopulated ==
    (pb.pc \in {"idle", "returned", "raised"} /\ host.label \in ImageIds) =>
        host.content = host.label

\* the providers pre_start has built, and the volumes it has inspected
StartBuilds == SelectSeq(ops, LAMBDA o : o[1] = "build")
StartInspects == SelectSeq(ops, LAMBDA o : o[1] = "inspect_volume")
\* the named volumes of the instance that have a provider
Provided == {v \in app.named_volumes[ps.instance] : RegisteredProvider(v) # NoContainer}
\* those of them the host did not have when the hook began
Missing == {v \in Provided : v \notin before.volumes}

\* C19: pre_start raises for an instance of a container that declares
\* provides-volume, before it inspects or builds anything. For any other
\* instance it inspects only mounted volumes that have a provider, builds only
\* providers of such volumes that the host did not have, each at most once,
\* and when it returns it has built the provider of every such volume; it
\* raises only out of a failed build.
C19_PreStart ==
    ps.pc # "idle" =>
        IF app.provides_volume[ps.instance] # NoVolume
        THEN /\ ps.pc \in {"safety_net", "raised"}
             /\ ops = <<>>
             /\ host = before
        ELSE /\ \A i \in DOMAIN StartInspects : StartInspects[i][2] \in Provided
             /\ NoDup(StartBuilds)
             /\ {StartBuilds[i][2] : i \in DOMAIN StartBuilds}
                    \subseteq {RegisteredProvider(v) : v \in Missing}
             /\ ps.pc = "returned" =>
                    /\ {StartBuilds[i][2] : i \in DOMAIN StartBuilds}
                           = {RegisteredProvider(v) : v \in Missing}
                    /\ {StartInspects[i][2] : i \in DOMAIN StartInspects} = Provided
             /\ ps.pc = "raised" =>
                    (ops # <<>> /\ ops[Len(ops)][1] = "build")

C19_Witness ==
    /\ ps.pc = "returned"
    /\ app.provides_volume[ps.instance] = NoVolume
    /\ app.named_volumes[ps.instance] = Volumes
    /\ Provided = {"vol"}
    /\ Missing = {"vol"}
    /\ "data" \notin before.volumes
    /\ Len(StartBuilds) = 1

\* the hook has vetoed the start of a volume-providing container that mounts
\* a provided volume the host does not have
C19_Vetoed ==
    /\ ps.pc = "raised"
    /\ app.provides_volume[ps.instance] # NoVolume
    /\ Missing # {}

\* C20: the comparison operators of PluginMetaclass are a strict total order
\* on the plugin classes of a process: of two distinct classes exactly one is
\* less than the other, they do not compare equal and their orderable ids
\* differ, whatever their names and ids; and the relation is transitive.
C20_StrictTotalOrder ==
    /\ \A a, b \in DOMAIN classes :
           a # b =>
               /\ __lt__(classes[a], classes[b]) # __lt__(classes[b], classes[a])
               /\ ~__eq__(classes[a], classes[b])
               /\ __ne__(classes[a], classes[b])
               /\ _orderable_id(classes[a]) # _orderable_id(classes[b])
    /\ \A a, b, c \in DOMAIN classes :
           (__lt__(classes[a], classes[b]) /\ __lt__(classes[b], classes[c]))
               => __lt__(classes[a], classes[c])
    /\ compared # <<>> =>
           /\ compared.gt = __lt__(classes[compared.b], classes[compared.a])
           /\ compared.a # compared.b =>
                  (compared.lt # compared.gt /\ ~compared.eq /\ compared.ne)

\* the class with another id(), as in another run of the process
WithId(cls, i) == [name |-> cls.name, id |-> i]

\* C21: two plugin classes with different names compare the same way whatever
\* their ids are: their relative order depends on the names only, so only
\* classes of the same name can change places between runs.
C21_OrderByNameOnly ==
    /\ \A a, b \in DOMAIN classes :
           classes[a].name # classes[b].name =>
               \A i, j \in ClassIds :
                   i # j =>
                       __lt__(WithId(classes[a], i), WithId(classes[b], j))
                           = __lt__(classes[a], classes[b])
    /\ (compared # <<>> /\ classes[compared.a].name # classes[compared.b].name) =>
           \A i, j \in ClassIds :
               i # j =>
                   __lt__(WithId(classes[compared.a], i), WithId(classes[compared.b], j))
                       = compared.lt

====
